---- MODULE Spec2Model ----
(***************************************************************************)
(* State engine of the hotel beacon dashboard: the useBeaconData hook      *)
(* (React state + callbacks + the interval effect) and the mock ingestion  *)
(* source (module-level arrays mutated by updateMockData).                 *)
(*                                                                         *)
(* Conventions                                                             *)
(*  - Time is the reading of Date.now(), counted in units of one minute    *)
(*    (60000 ms); two operations at the same reading happened in the same  *)
(*    millisecond.  The clock never goes backward.                         *)
(*  - An optional field (`x?: T`) is a set: {} when undefined, {v} when    *)
(*    defined.                                                             *)
(*  - Ids are strings in the source ('1'..'5' and Date.now().toString());  *)
(*    toString is injective and ids are only compared for equality, so an  *)
(*    id is modelled by the number it prints.                              *)
(*  - The React state variables hold the value the next render will show   *)
(*    (updater functions are applied in call order).  What the callbacks   *)
(*    captured at the last render is kept in closureBeacons and            *)
(*    closureConnected; Render republishes them and runs the effect.       *)
(*  - Beacon fields the engine never reads (description, deviceMode,       *)
(*    auxiliaryOperation, estimatedDistance, isCharging) are not carried.  *)
(***************************************************************************)
EXTENDS Integers, Sequences, FiniteSets, TLC

VARIABLES
  now,               \* Date.now()
  mockBeacons,       \* module-level array of the ingestion source
  mockActivityLogs,  \* module-level array of the ingestion source
  beacons,           \* useState: beacons
  activityLogs,      \* useState: activityLogs
  alarmHistory,      \* useState: alarmHistory
  connectionStatus,  \* useState: connectionStatus
  statistics,        \* useState: statistics
  settings,          \* useState: settings
  isLoading,         \* useState: isLoading
  timeouts,          \* number of refreshData setTimeout callbacks not yet run
  timers,            \* live setInterval timers: records [id, period]
  effectTimer,       \* interval ids the mounted effect's cleanup will clear
  effectDeps,        \* dependency values the mounted effect ran with
  timersCreated,     \* number of setInterval calls so far
  closureBeacons,    \* `beacons` captured by updateBeacon at the last render
  closureConnected,  \* `connectionStatus.isConnected` captured by toggleConnection
  lastOp,            \* the operation applied last; Render once it is rendered
  steps              \* number of operations applied so far

vars == << now, mockBeacons, mockActivityLogs, beacons, activityLogs,
           alarmHistory, connectionStatus, statistics, settings, isLoading,
           timeouts, timers, effectTimer, effectDeps, timersCreated,
           closureBeacons, closureConnected, lastOp, steps >>

----------------------------------------------------------------------------
\* Bounds of the exploration

\* clock reading when the module is loaded
Now0 == 1000
\* the clock is advanced at most this far past Now0
MaxAdvance == 1
\* operations (commands, ticks, timeouts) explored from the initial state
MaxSteps == 3

----------------------------------------------------------------------------
\* Program constants

\* 5 * 60 * 1000 ms, in minutes
ActiveWindow == 5
\* batteryLevel <= 30 counts as low
LowBatteryThreshold == 30
\* "Keep only last 50 logs"
LogCap == 50

----------------------------------------------------------------------------
\* Helpers

None == {}
Some(v) == {v}

\* A variant of the object spread in which the left operand wins.
SpreadLeftWins(a, b) ==
  [f \in (DOMAIN a) \cup (DOMAIN b) |-> IF f \in DOMAIN a THEN a[f] ELSE b[f]]

\* { ...a, ...b }
Spread(a, b) ==
  [f \in (DOMAIN a) \cup (DOMAIN b) |-> IF f \in DOMAIN b THEN b[f] ELSE a[f]]

\* JavaScript truthiness of an optional number: undefined and 0 are falsy
TruthyNum(opt) == \E v \in opt : v # 0

\* JavaScript truthiness of an optional Date: only undefined is falsy
TruthyDate(opt) == opt # {}

\* a || b on optional values
OrElse(aTruthy, a, b) == IF aTruthy THEN a ELSE b

Max(a, b) == IF a >= b THEN a ELSE b

\* Array.prototype.map
SeqMap(F(_), s) == [i \in 1..Len(s) |-> F(s[i])]

Ids(list) == {list[i].id : i \in 1..Len(list)}

\* Array.prototype.filter
RECURSIVE Filter(_, _)
Filter(Keep(_), s) ==
  IF s = << >> THEN << >>
  ELSE IF Keep(Head(s)) THEN << Head(s) >> \o Filter(Keep, Tail(s))
       ELSE Filter(Keep, Tail(s))

\* Array.prototype.find, as an optional value
Find(Test(_), s) ==
  IF \E i \in 1..Len(s) : Test(s[i])
  THEN Some(s[CHOOSE i \in 1..Len(s) : Test(s[i]) /\ \A j \in 1..(i-1) : ~Test(s[j])])
  ELSE None

\* variant: the new entry is put at the tail
PrependAtTail(entry, prev) == Append(prev, entry)

\* [entry, ...prev]
Prepend(entry, prev) == << entry >> \o prev

\* Array.prototype.splice(n): keep the first n elements
Splice(s, n) == IF Len(s) > n THEN SubSeq(s, 1, n) ELSE s

----------------------------------------------------------------------------
\* utils: isBeaconActive

isBeaconActive(lastSeen, t) ==
  IF ~TruthyDate(lastSeen) THEN FALSE
  ELSE \E ls \in lastSeen : ls > t - ActiveWindow

----------------------------------------------------------------------------
\* mockData: initial data of the ingestion source

Beacon(id, mac, room, lastSeen, rssi, battery, createdAt, active) ==
  [id |-> id, macAddress |-> mac, roomNumber |-> room, lastSeen |-> lastSeen,
   rssi |-> rssi, batteryLevel |-> battery, createdAt |-> createdAt,
   isActive |-> active]

Details(text, rssi, battery) == [text |-> text, rssi |-> rssi, battery |-> battery]

LogEntry(id, ts, beaconId, type, details, room, mac) ==
  [id |-> id, timestamp |-> ts, beaconId |-> beaconId, eventType |-> type,
   details |-> details, roomNumber |-> room, macAddress |-> mac]

Alarm(id, ts, beaconId, type, severity, ack) ==
  [id |-> id, timestamp |-> ts, beaconId |-> beaconId, alertType |-> type,
   severity |-> severity, acknowledged |-> ack]

\* The seeds are evaluated when the module is loaded, at clock reading t0;
\* createdAt of the seeded beacons lies days before that
mockBeaconsAt(t0) ==
  << Beacon(1, "D3:8D:48:10:63:3C", "6h",  Some(t0 - 2),  Some(-45), Some(85), t0 - 300, TRUE),
     Beacon(2, "D6:20:31:E8:D8:1D", "87",  Some(t0 - 5),  Some(-62), Some(45), t0 - 300, TRUE),
     Beacon(3, "ED:38:4C:1C:47:93", "8i",  Some(t0 - 10), Some(-78), Some(92), t0 - 300, FALSE),
     Beacon(4, "A1:B2:C3:D4:E5:F6", "101", Some(t0 - 1),  Some(-35), Some(15), t0 - 400, TRUE),
     Beacon(5, "F1:E2:D3:C4:B5:A6", "205", Some(t0 - 3),  Some(-55), Some(78), t0 - 500, TRUE) >>

mockActivityLogsAt(t0) ==
  << LogEntry(1, t0 - 5,  Some(1), "MQTT_MSG",
              Details("Beacon signal received", None, None), Some("6h"), Some("D3:8D:48:10:63:3C")),
     LogEntry(2, t0 - 10, Some(2), "ALERT",
              Details("Low battery warning", None, None), Some("87"), Some("D6:20:31:E8:D8:1D")),
     LogEntry(3, t0 - 15, None, "SYSTEM",
              Details("AWS IoT connection established", None, None), None, None),
     LogEntry(4, t0 - 20, Some(4), "REGISTRATION",
              Details("New beacon registered", None, None), Some("101"), Some("A1:B2:C3:D4:E5:F6")),
     LogEntry(5, t0 - 25, Some(3), "BEACON_UPDATE",
              Details("Beacon status updated", None, None), Some("8i"), Some("ED:38:4C:1C:47:93")) >>

mockAlarmHistoryAt(t0) ==
  << Alarm(1, t0 - 30,  4, "LOW_BATTERY", "critical", FALSE),
     Alarm(2, t0 - 45,  2, "LOW_BATTERY", "medium",   TRUE),
     Alarm(3, t0 - 120, 3, "SIGNAL_WEAK", "low",      TRUE),
     Alarm(4, t0 - 240, 5, "MAINTENANCE", "medium",   FALSE) >>

mockConnectionStatusAt(t0) ==
  [isConnected |-> TRUE, status |-> "Connected", lastConnected |-> Some(t0 - 30)]

mockBeaconsInit == mockBeaconsAt(Now0)
mockActivityLogsInit == mockActivityLogsAt(Now0)
mockAlarmHistoryInit == mockAlarmHistoryAt(Now0)
mockConnectionStatusInit == mockConnectionStatusAt(Now0)

mockBeaconStatisticsInit ==
  [totalBeacons |-> 5, activeBeacons |-> 4, lowBatteryBeacons |-> 2, offlineBeacons |-> 1]

mockSettingsInit == [autoRefresh |-> TRUE, refreshInterval |-> 5]

----------------------------------------------------------------------------
\* useBeaconData: calculateStatistics

\* variant: offline counted from the stored flags instead of total - active
calculateStatisticsOfflineByFlag(beaconList, t) ==
  LET IsLive(b) == isBeaconActive(b.lastSeen, t)
      IsLow(b)  == \E lvl \in b.batteryLevel : lvl <= LowBatteryThreshold
      IsOff(b)  == ~b.isActive
  IN  [totalBeacons      |-> Len(beaconList),
       activeBeacons     |-> Len(Filter(IsLive, beaconList)),
       lowBatteryBeacons |-> Len(Filter(IsLow, beaconList)),
       offlineBeacons    |-> Len(Filter(IsOff, beaconList))]

calculateStatistics(beaconList, t) ==
  LET IsLive(b) == isBeaconActive(b.lastSeen, t)
      IsLow(b)  == \E lvl \in b.batteryLevel : lvl <= LowBatteryThreshold
      totalBeacons  == Len(beaconList)
      activeBeacons == Len(Filter(IsLive, beaconList))
  IN  [totalBeacons      |-> totalBeacons,
       activeBeacons     |-> activeBeacons,
       lowBatteryBeacons |-> Len(Filter(IsLow, beaconList)),
       offlineBeacons    |-> totalBeacons - activeBeacons]

----------------------------------------------------------------------------
\* mockData: updateMockData
\* The Math.random() draws of one call are the record `draw`:
\*   refreshed : indices of the beacons whose 30% draw succeeded
\*   age       : Math.random() * 5 min, the same draw for every refreshed beacon
\*   rssi      : -30 - Math.random() * 50
\*   drain     : Math.random() * 2
\*   logIdx    : 0 when the 20% draw failed, else the index of randomBeacon

\* variant: a lastSeen exactly ActiveWindow old still counts as active
updateMockIsActiveInclusive(lastSeen, t) == (t - lastSeen) <= ActiveWindow

\* (now.getTime() - beacon.lastSeen.getTime()) < 5 * 60 * 1000
updateMockIsActive(lastSeen, t) == (t - lastSeen) < ActiveWindow

updateMockBeacons(mb, t, draw) ==
  [i \in 1..Len(mb) |->
     IF i \in draw.refreshed
     THEN LET lastSeen == t - draw.age
              level    == CHOOSE lvl \in mb[i].batteryLevel : TRUE
          IN  [mb[i] EXCEPT !.lastSeen     = Some(lastSeen),
                            !.rssi         = Some(draw.rssi),
                            !.batteryLevel = Some(Max(0, level - draw.drain)),
                            !.isActive     = updateMockIsActive(lastSeen, t)]
     ELSE mb[i]]

\* the entry pushed for randomBeacon
mockLogEntry(mb, t, draw) ==
  LET randomBeacon == mb[draw.logIdx]
  IN  LogEntry(t, t, Some(randomBeacon.id), "MQTT_MSG",
               Details("Beacon signal received",
                       randomBeacon.rssi, randomBeacon.batteryLevel),
               Some(randomBeacon.roomNumber), Some(randomBeacon.macAddress))

updateMockLogs(ml, mb, t, draw) ==
  IF draw.logIdx = 0 THEN ml
  ELSE Splice(<< mockLogEntry(mb, t, draw) >> \o ml, LogCap)

updateMockData(draw) ==
  /\ mockBeacons' = updateMockBeacons(mockBeacons, now, draw)
  /\ mockActivityLogs' = updateMockLogs(mockActivityLogs, mockBeacons', now, draw)

----------------------------------------------------------------------------
\* Bookkeeping of the exploration

Op(name, id) == [op |-> name, id |-> id]

Applied(o) ==
  /\ lastOp' = o
  /\ steps' = steps + 1

CanStep == steps < MaxSteps

\* no state update is waiting for a render
Rendered == lastOp.op = "Render"

Get(rec, f) == IF f \in DOMAIN rec THEN rec[f] ELSE None

----------------------------------------------------------------------------
\* useBeaconData: the command surface

addBeacon(newBeacon) ==
  LET beacon == Spread(newBeacon,
                       [id        |-> now,
                        createdAt |-> now,
                        isActive  |-> isBeaconActive(newBeacon.lastSeen, now)])
      logEntry == LogEntry(now, now, Some(beacon.id), "REGISTRATION",
                           Details("New beacon registered", None, None),
                           Some(beacon.roomNumber), Some(beacon.macAddress))
  IN  /\ CanStep
      /\ beacons' = Append(beacons, beacon)
      /\ statistics' = calculateStatistics(beacons', now)
      /\ activityLogs' = Prepend(logEntry, activityLogs)
      /\ Applied(Op("addBeacon", beacon.id))
      /\ UNCHANGED << now, mockBeacons, mockActivityLogs, alarmHistory,
                      connectionStatus, settings, isLoading, timeouts, timers,
                      effectTimer, effectDeps, timersCreated, closureBeacons,
                      closureConnected >>

updateBeacon(id, updates) ==
  LET Patch(beacon) ==
        IF beacon.id = id
        THEN Spread(Spread(beacon, updates),
                    [isActive |-> isBeaconActive(
                       OrElse(TruthyDate(Get(updates, "lastSeen")),
                              Get(updates, "lastSeen"), beacon.lastSeen), now)])
        ELSE beacon
      rssi    == Get(updates, "rssi")
      battery == Get(updates, "batteryLevel")
      significant == \/ TruthyDate(Get(updates, "lastSeen"))
                     \/ TruthyNum(battery)
                     \/ TruthyNum(rssi)
      found == Find(LAMBDA b : b.id = id, closureBeacons)
  IN  /\ CanStep
      /\ beacons' = SeqMap(Patch, beacons)
      /\ statistics' = calculateStatistics(beacons', now)
      /\ activityLogs' =
           IF significant /\ found # None
           THEN LET beacon == CHOOSE b \in found : TRUE
                    logEntry == LogEntry(now, now, Some(id), "BEACON_UPDATE",
                                  Details("Beacon updated",
                                          IF TruthyNum(rssi) THEN rssi ELSE None,
                                          IF TruthyNum(battery) THEN battery ELSE None),
                                  Some(beacon.roomNumber), Some(beacon.macAddress))
                IN  Prepend(logEntry, activityLogs)
           ELSE activityLogs
      /\ Applied(Op("updateBeacon", id))
      /\ UNCHANGED << now, mockBeacons, mockActivityLogs, alarmHistory,
                      connectionStatus, settings, isLoading, timeouts, timers,
                      effectTimer, effectDeps, timersCreated, closureBeacons,
                      closureConnected >>

\* variant: the delete also drops the alarms raised for the beacon
deleteBeaconCascade(id) ==
  /\ CanStep
  /\ beacons' = Filter(LAMBDA b : b.id # id, beacons)
  /\ statistics' = calculateStatistics(beacons', now)
  /\ alarmHistory' = Filter(LAMBDA a : a.beaconId # id, alarmHistory)
  /\ Applied(Op("deleteBeacon", id))
  /\ UNCHANGED << now, mockBeacons, mockActivityLogs, activityLogs,
                  connectionStatus, settings, isLoading, timeouts, timers,
                  effectTimer, effectDeps, timersCreated, closureBeacons,
                  closureConnected >>

deleteBeacon(id) ==
  /\ CanStep
  /\ beacons' = Filter(LAMBDA b : b.id # id, beacons)
  /\ statistics' = calculateStatistics(beacons', now)
  /\ Applied(Op("deleteBeacon", id))
  /\ UNCHANGED << now, mockBeacons, mockActivityLogs, activityLogs, alarmHistory,
                  connectionStatus, settings, isLoading, timeouts, timers,
                  effectTimer, effectDeps, timersCreated, closureBeacons,
                  closureConnected >>

\* A variant that flips the flag instead of setting it.
AcknowledgeToggle(alarm) == [alarm EXCEPT !.acknowledged = ~alarm.acknowledged]

\* A variant that withdraws the acknowledgement.
AcknowledgeClear(alarm) == [alarm EXCEPT !.acknowledged = FALSE]

\* { ...alarm, acknowledged: true }
Acknowledge(alarm) == [alarm EXCEPT !.acknowledged = TRUE]

acknowledgeAlarm(alarmId) ==
  /\ CanStep
  /\ alarmHistory' = SeqMap(LAMBDA alarm : IF alarm.id = alarmId
                                           THEN Acknowledge(alarm)
                                           ELSE alarm,
                            alarmHistory)
  /\ Applied(Op("acknowledgeAlarm", alarmId))
  /\ UNCHANGED << now, mockBeacons, mockActivityLogs, beacons, activityLogs,
                  connectionStatus, statistics, settings, isLoading, timeouts,
                  timers, effectTimer, effectDeps, timersCreated, closureBeacons,
                  closureConnected >>

clearAlarmHistory ==
  /\ CanStep
  /\ alarmHistory' = << >>
  /\ Applied(Op("clearAlarmHistory", 0))
  /\ UNCHANGED << now, mockBeacons, mockActivityLogs, beacons, activityLogs,
                  connectionStatus, statistics, settings, isLoading, timeouts,
                  timers, effectTimer, effectDeps, timersCreated, closureBeacons,
                  closureConnected >>

\* A variant of clearActivityLogs that empties the alarm history as well.
clearActivityLogsAndAlarms ==
  /\ CanStep
  /\ activityLogs' = << >>
  /\ alarmHistory' = << >>
  /\ Applied(Op("clearActivityLogs", 0))
  /\ UNCHANGED << now, mockBeacons, mockActivityLogs, beacons,
                  connectionStatus, statistics, settings, isLoading, timeouts,
                  timers, effectTimer, effectDeps, timersCreated, closureBeacons,
                  closureConnected >>

clearActivityLogs ==
  /\ CanStep
  /\ activityLogs' = << >>
  /\ Applied(Op("clearActivityLogs", 0))
  /\ UNCHANGED << now, mockBeacons, mockActivityLogs, beacons, alarmHistory,
                  connectionStatus, statistics, settings, isLoading, timeouts,
                  timers, effectTimer, effectDeps, timersCreated, closureBeacons,
                  closureConnected >>

\* variant: the toggle flips the flag and leaves the label as it was
toggleLabelKeep(connected) == IF connected THEN "Disconnected" ELSE "Connected"

\* status: !prev.isConnected ? 'Connected' : 'Disconnected'
toggleLabel(connected) == IF connected THEN "Connected" ELSE "Disconnected"

toggleConnection ==
  LET prev == connectionStatus
      logEntry == LogEntry(now, now, None, "SYSTEM",
                           Details(IF closureConnected
                                   THEN "AWS IoT connection terminated"
                                   ELSE "AWS IoT connection established", None, None),
                           None, None)
  IN  /\ CanStep
      /\ connectionStatus' =
           [isConnected   |-> ~prev.isConnected,
            status        |-> toggleLabel(~prev.isConnected),
            lastConnected |-> IF ~prev.isConnected THEN Some(now) ELSE prev.lastConnected]
      /\ activityLogs' = Prepend(logEntry, activityLogs)
      /\ Applied(Op("toggleConnection", 0))
      /\ UNCHANGED << now, mockBeacons, mockActivityLogs, beacons, alarmHistory,
                      statistics, settings, isLoading, timeouts, timers,
                      effectTimer, effectDeps, timersCreated, closureBeacons,
                      closureConnected >>

updateSettings(newSettings) ==
  /\ CanStep
  /\ settings' = Spread(settings, newSettings)
  /\ Applied(Op("updateSettings", 0))
  /\ UNCHANGED << now, mockBeacons, mockActivityLogs, beacons, activityLogs,
                  alarmHistory, connectionStatus, statistics, isLoading, timeouts,
                  timers, effectTimer, effectDeps, timersCreated, closureBeacons,
                  closureConnected >>

----------------------------------------------------------------------------
\* useBeaconData: the interval effect and the manual refresh

\* one firing of the setInterval callback of a live timer; drift is the 5% draw
intervalTick(timer, draw, drift) ==
  /\ CanStep
  /\ timer \in timers
  /\ updateMockData(draw)
  /\ beacons' = mockBeacons'
  /\ statistics' = calculateStatistics(beacons', now)
  /\ activityLogs' = mockActivityLogs'
  /\ connectionStatus' =
       IF drift
       THEN [connectionStatus EXCEPT
               !.status        = IF connectionStatus.isConnected
                                 THEN "Connected" ELSE "Disconnected",
               !.lastConnected = IF connectionStatus.isConnected
                                 THEN Some(now) ELSE connectionStatus.lastConnected]
       ELSE connectionStatus
  /\ Applied(Op("intervalTick", timer.id))
  /\ UNCHANGED << now, alarmHistory, settings, isLoading, timeouts, timers,
                  effectTimer, effectDeps, timersCreated, closureBeacons,
                  closureConnected >>

refreshData ==
  /\ CanStep
  /\ isLoading' = TRUE
  /\ timeouts' = timeouts + 1
  /\ Applied(Op("refreshData", 0))
  /\ UNCHANGED << now, mockBeacons, mockActivityLogs, beacons, activityLogs,
                  alarmHistory, connectionStatus, statistics, settings, timers,
                  effectTimer, effectDeps, timersCreated, closureBeacons,
                  closureConnected >>

\* variant: the callback applies the data and leaves the busy flag set
completeRefreshKeepBusy(draw) ==
  /\ timeouts > 0
  /\ updateMockData(draw)
  /\ beacons' = mockBeacons'
  /\ activityLogs' = mockActivityLogs'
  /\ statistics' = calculateStatistics(mockBeacons', now)
  /\ isLoading' = isLoading
  /\ timeouts' = timeouts - 1
  /\ Applied(Op("refreshTimeout", 0))
  /\ UNCHANGED << now, alarmHistory, connectionStatus, settings, timers,
                  effectTimer, effectDeps, timersCreated, closureBeacons,
                  closureConnected >>

\* the setTimeout callback of refreshData
completeRefresh(draw) ==
  /\ timeouts > 0
  /\ updateMockData(draw)
  /\ beacons' = mockBeacons'
  /\ activityLogs' = mockActivityLogs'
  /\ statistics' = calculateStatistics(mockBeacons', now)
  /\ isLoading' = FALSE
  /\ timeouts' = timeouts - 1
  /\ Applied(Op("refreshTimeout", 0))
  /\ UNCHANGED << now, alarmHistory, connectionStatus, settings, timers,
                  effectTimer, effectDeps, timersCreated, closureBeacons,
                  closureConnected >>

\* the callback as one of the operations explored from the initial state
refreshTimeout(draw) == CanStep /\ completeRefresh(draw)

\* variant: the effect returns no cleanup, the old interval is left running
effectCleanupMissing(live, owned) == live

\* clearInterval(interval) of the effect's cleanup
effectCleanup(live, owned) == {t \in live : t.id \notin owned}

\* variant: the interval keeps the period the hook was mounted with
effectIntervalMountPeriod(created, s) ==
  [id |-> created + 1, period |-> mockSettingsInit.refreshInterval]

\* setInterval(callback, settings.refreshInterval * 1000)
effectInterval(created, s) == [id |-> created + 1, period |-> s.refreshInterval]

\* React commits the pending state: the callbacks are re-created over the new
\* values and the effect is re-run when one of its dependencies changed
Render ==
  LET deps == << settings.autoRefresh, settings.refreshInterval >>
      cleaned == effectCleanup(timers, effectTimer)
      interval == effectInterval(timersCreated, settings)
  IN  /\ ~Rendered
      /\ closureBeacons' = beacons
      /\ closureConnected' = connectionStatus.isConnected
      /\ lastOp' = Op("Render", 0)
      /\ effectDeps' = deps
      /\ IF deps = effectDeps
         THEN UNCHANGED << timers, effectTimer, timersCreated >>
         ELSE IF ~settings.autoRefresh
              THEN /\ timers' = cleaned
                   /\ effectTimer' = {}
                   /\ UNCHANGED timersCreated
              ELSE /\ timers' = cleaned \cup {interval}
                   /\ effectTimer' = {interval.id}
                   /\ timersCreated' = timersCreated + 1
      /\ UNCHANGED << now, mockBeacons, mockActivityLogs, beacons, activityLogs,
                      alarmHistory, connectionStatus, statistics, settings,
                      isLoading, timeouts, steps >>

\* the clock moves on by a minute; a render follows its operations within
\* milliseconds, so a minute only passes once the pending state is rendered
AdvanceTime ==
  /\ now < Now0 + MaxAdvance
  /\ Rendered
  /\ now' = now + 1
  /\ UNCHANGED << mockBeacons, mockActivityLogs, beacons, activityLogs,
                  alarmHistory, connectionStatus, statistics, settings, isLoading,
                  timeouts, timers, effectTimer, effectDeps, timersCreated,
                  closureBeacons, closureConnected, lastOp, steps >>

----------------------------------------------------------------------------
\* Inputs

NewBeacon(mac, room, lastSeen, rssi, battery) ==
  [macAddress |-> mac, roomNumber |-> room, lastSeen |-> lastSeen,
   rssi |-> rssi, batteryLevel |-> battery]

NewBeaconSamples ==
  { NewBeacon("AA:00:00:00:00:01", "301", Some(now), Some(-40), Some(50)),
    NewBeacon("AA:00:00:00:00:02", "302", Some(now - 10), None, Some(20)),
    Spread(NewBeacon("AA:00:00:00:00:03", "303", None, None, None),
           [isActive |-> TRUE]) }

UnknownId == 99

\* ids of the beacons added since the module was loaded
AddedIds == Ids(beacons) \ Ids(mockBeaconsInit)

DeleteSamples == {4, UnknownId} \cup AddedIds

\* pairs << id, patch >>
UpdateSamples ==
  { << 3, [lastSeen |-> Some(now)] >>,
    << 4, [batteryLevel |-> Some(0)] >>,
    << 2, [rssi |-> Some(-60), batteryLevel |-> Some(25)] >>,
    << 3, [roomNumber |-> "102", isActive |-> TRUE] >>,
    << UnknownId, [lastSeen |-> Some(now)] >> }
  \cup { << id, [lastSeen |-> Some(now)] >> : id \in AddedIds }

AlarmIdSamples == {1, 2, UnknownId}

SettingsSamples ==
  { [autoRefresh |-> FALSE], [autoRefresh |-> TRUE], [refreshInterval |-> 10] }

Draw(refreshed, age, rssi, drain, logIdx) ==
  [refreshed |-> refreshed, age |-> age, rssi |-> rssi, drain |-> drain,
   logIdx |-> logIdx]

\* nothing drawn; beacons 3 and 4 refreshed and an entry logged for beacon 4
DrawSamples ==
  { Draw({}, 0, -55, 1, 0),
    Draw({3, 4}, 4, -30, 1, 4) }

\* pairs << draw, drift >> of one interval tick
TickSamples ==
  { << d, FALSE >> : d \in DrawSamples } \cup { << Draw({}, 0, -55, 1, 0), TRUE >> }

----------------------------------------------------------------------------
\* Specification

\* the hook is mounted: first render done, the effect has started its timer
Init ==
  /\ now = Now0
  /\ mockBeacons = mockBeaconsInit
  /\ mockActivityLogs = mockActivityLogsInit
  /\ beacons = mockBeaconsInit
  /\ activityLogs = mockActivityLogsInit
  /\ alarmHistory = mockAlarmHistoryInit
  /\ connectionStatus = mockConnectionStatusInit
  /\ statistics = mockBeaconStatisticsInit
  /\ settings = mockSettingsInit
  /\ isLoading = FALSE
  /\ timeouts = 0
  /\ timers = {[id |-> 1, period |-> mockSettingsInit.refreshInterval]}
  /\ effectTimer = {1}
  /\ effectDeps = << mockSettingsInit.autoRefresh, mockSettingsInit.refreshInterval >>
  /\ timersCreated = 1
  /\ closureBeacons = mockBeaconsInit
  /\ closureConnected = mockConnectionStatusInit.isConnected
  /\ lastOp = Op("Render", 0)
  /\ steps = 0

Next ==
  \/ \E nb \in NewBeaconSamples : addBeacon(nb)
  \/ \E up \in UpdateSamples : updateBeacon(up[1], up[2])
  \/ \E id \in DeleteSamples : deleteBeacon(id)
  \/ \E id \in AlarmIdSamples : acknowledgeAlarm(id)
  \/ clearAlarmHistory
  \/ clearActivityLogs
  \/ toggleConnection
  \/ \E ns \in SettingsSamples : updateSettings(ns)
  \/ \E t \in timers, s \in TickSamples : intervalTick(t, s[1], s[2])
  \/ refreshData
  \/ \E d \in DrawSamples : refreshTimeout(d)
  \/ Render
  \/ AdvanceTime

Spec == Init /\ [][Next]_vars

\* The same engine observed later: the module was loaded LogCap - 5 minutes
\* before Now0 and one interval tick per minute has logged a sample of beacon 4
\* and refreshed nothing, so the ingestion log holds LogCap entries at Now0.
LoadTime == Now0 - (LogCap - 5)

QuietDraw == Draw({}, 0, -55, 1, 4)

\* the ingestion log then: the entry of each minute's tick, newest first, on
\* top of the seeds
TickedLogs ==
  [i \in 1..(Now0 - LoadTime) |->
     mockLogEntry(mockBeaconsAt(LoadTime), Now0 + 1 - i, QuietDraw)]
  \o mockActivityLogsAt(LoadTime)

InitLogFull ==
  /\ now = Now0
  /\ mockBeacons = mockBeaconsAt(LoadTime)
  /\ mockActivityLogs = TickedLogs
  /\ beacons = mockBeacons
  /\ activityLogs = mockActivityLogs
  /\ alarmHistory = mockAlarmHistoryAt(LoadTime)
  /\ connectionStatus = mockConnectionStatusAt(LoadTime)
  /\ statistics = calculateStatistics(beacons, now)
  /\ settings = mockSettingsInit
  /\ isLoading = FALSE
  /\ timeouts = 0
  /\ timers = {[id |-> 1, period |-> mockSettingsInit.refreshInterval]}
  /\ effectTimer = {1}
  /\ effectDeps = << mockSettingsInit.autoRefresh, mockSettingsInit.refreshInterval >>
  /\ timersCreated = 1
  /\ closureBeacons = beacons
  /\ closureConnected = connectionStatus.isConnected
  /\ lastOp = Op("Render", 0)
  /\ steps = 0

SpecLogFull == InitLogFull /\ [][Next]_vars

----------------------------------------------------------------------------
\* Properties

\* the step taken is an operation of the engine (not a render, not the clock)
Stepped == steps' = steps + 1

NewestFirstStrict(log) ==
  \A i \in 1..(Len(log) - 1) : log[i].timestamp > log[i + 1].timestamp

NewestFirst(log) ==
  \A i \in 1..(Len(log) - 1) : log[i].timestamp >= log[i + 1].timestamp

LowBatteryCount(list) ==
  Cardinality({i \in 1..Len(list) :
                 \E lvl \in list[i].batteryLevel : lvl <= LowBatteryThreshold})

\* C1: right after addBeacon, updateBeacon or an interval tick, every beacon of
\* the store has isActive = isBeaconActive(lastSeen, now), the beacons the
\* operation did not touch included.
C1_IsActiveDerived ==
  lastOp.op \in {"addBeacon", "updateBeacon", "intervalTick"}
    => \A i \in 1..Len(beacons) :
         beacons[i].isActive = isBeaconActive(beacons[i].lastSeen, now)

\* C2: in every rendered state, the initial one included, totalBeacons is the
\* number of beacons in the store and lowBatteryBeacons the number of beacons
\* with a defined batteryLevel <= 30.
C2_StatisticsMatchBeacons ==
  Rendered => /\ statistics.totalBeacons = Len(beacons)
              /\ statistics.lowBatteryBeacons = LowBatteryCount(beacons)

\* C3: offlineBeacons = totalBeacons - activeBeacons in every reachable state.
C3_OfflineIsTotalMinusActive ==
  statistics.offlineBeacons = statistics.totalBeacons - statistics.activeBeacons

\* C3 witness: statistics recomputed by a manual refresh, with beacons both
\* active and offline.
C3_Witness ==
  /\ lastOp.op = "refreshTimeout"
  /\ statistics # mockBeaconStatisticsInit
  /\ statistics.activeBeacons > 0
  /\ statistics.offlineBeacons > 0

\* C4: the activity log never holds more than LogCap entries.
C4_LogCapped == Len(activityLogs) <= LogCap

\* C5: the set of beacon ids changes only in addBeacon and deleteBeacon steps.
C5_IdsChangeOnlyByAddDelete ==
  [][Ids(beacons') # Ids(beacons)
       => Stepped /\ lastOp'.op \in {"addBeacon", "deleteBeacon"}]_vars

\* C6: an interval tick or a manual refresh leaves the activity log as it was,
\* or with one new entry prepended and the result cut at LogCap.
C6_TickKeepsLog ==
  [][(Stepped /\ lastOp'.op \in {"intervalTick", "refreshTimeout"})
       => \/ activityLogs' = activityLogs
          \/ /\ activityLogs' # << >>
             /\ activityLogs' = Splice(<< Head(activityLogs') >> \o activityLogs, LogCap)]_vars

\* C7 (as stated): of two adjacent log entries the one nearer the head has a
\* strictly later timestamp.
C7_StrictlyNewestFirst == NewestFirstStrict(activityLogs)

\* C7 (amended): of two adjacent log entries the one nearer the head is never
\* earlier than the one after it.
C7_NewestFirst == NewestFirst(activityLogs)

\* C7 witness: a command has prepended its entry, a minute after the seeds were
\* loaded, on top of older entries.
C7_Witness ==
  /\ lastOp.op \in {"addBeacon", "updateBeacon", "toggleConnection"}
  /\ Len(activityLogs) >= 3
  /\ activityLogs[1].timestamp = Now0 + 1
  /\ activityLogs[1].timestamp > activityLogs[2].timestamp

\* C8: when toggleConnection is called again before the first call is rendered,
\* connected is back at its value before the first call, lastConnected was
\* stamped by the one call that connected, and the two SYSTEM entries name the
\* two transitions: each message tells the connected value before its own flip.
C8_DoubleToggle ==
  [][(Stepped /\ lastOp.op = "toggleConnection" /\ lastOp'.op = "toggleConnection")
       => LET before2 == connectionStatus.isConnected
              before1 == ~before2
              Text(c) == IF c THEN "AWS IoT connection terminated"
                              ELSE "AWS IoT connection established"
          IN  /\ connectionStatus'.isConnected = before1
              /\ Len(activityLogs') >= 2
              /\ activityLogs'[1].eventType = "SYSTEM"
              /\ activityLogs'[2].eventType = "SYSTEM"
              /\ activityLogs'[1].details.text = Text(before2)
              /\ activityLogs'[2].details.text = Text(before1)
              /\ connectionStatus'.lastConnected =
                   Some(IF before2 THEN activityLogs'[2].timestamp
                                   ELSE activityLogs'[1].timestamp)]_vars

\* C9: lastConnected changes only in a step that takes connected from false to
\* true, and it never moves backward.
C9_LastConnectedOnlyOnConnect ==
  [][connectionStatus'.lastConnected # connectionStatus.lastConnected
       => /\ ~connectionStatus.isConnected
          /\ connectionStatus'.isConnected
          /\ \A old \in connectionStatus.lastConnected,
                new \in connectionStatus'.lastConnected : new >= old]_vars

\* C10: at most one interval timer is live.
C10_AtMostOneTimer == Cardinality(timers) <= 1

\* C10 witness: the effect was re-run after a settings change and its new
\* timer is the live one.
C10_Witness ==
  \E t \in timers : t.id > 1 /\ t.period = settings.refreshInterval

\* ------------------------------------------------------------------------
\* Registration form inputs the hook accepts as they come: the hook's
\* addBeacon has no check of its own on macAddress or roomNumber.
InvalidBeaconSamples ==
  { NewBeacon("", "304", Some(now), Some(-40), Some(50)),
    NewBeacon("AA:00:00:00:00:05", "", Some(now), Some(-40), Some(50)) }

NextWithInvalid ==
  \/ Next
  \/ \E nb \in InvalidBeaconSamples : addBeacon(nb)

SpecWithInvalid == Init /\ [][NextWithInvalid]_vars

\* The step removed the one beacon at position i and nothing else.
RemovedAt(i) ==
  beacons' = SubSeq(beacons, 1, i - 1) \o SubSeq(beacons, i + 1, Len(beacons))

IsUnknownIdStep ==
  /\ Stepped
  /\ \/ /\ lastOp'.op \in {"updateBeacon", "deleteBeacon"}
        /\ lastOp'.id \notin Ids(beacons)
     \/ /\ lastOp'.op = "acknowledgeAlarm"
        /\ lastOp'.id \notin Ids(alarmHistory)

\* C11: when updateSettings has returned, the periodic timer already matches
\* the new settings: no timer is left when autoRefresh is off, and a timer
\* that is left has the new refreshInterval as its period.
C11_ReconfiguredOnReturn ==
  lastOp.op = "updateSettings" =>
    \A t \in timers : settings.autoRefresh /\ t.period = settings.refreshInterval

\* C12: at most one manual refresh is pending at any time: a refreshData call
\* made while one is pending does not start a second one.
C12_OneRefreshPending == timeouts <= 1

\* C13: every beacon appended by addBeacon has a non-empty macAddress and a
\* non-empty roomNumber (input that lacks one is rejected, the store unchanged).
C13_AddedBeaconIsValid ==
  [][(Stepped /\ lastOp'.op = "addBeacon" /\ Len(beacons') > Len(beacons))
       => LET b == beacons'[Len(beacons')]
          IN  b.macAddress # "" /\ b.roomNumber # ""]_vars

\* C14: updateBeacon or deleteBeacon with an id no beacon has, and
\* acknowledgeAlarm with an id no alarm has, change nothing in the store.
C14_UnknownIdChangesNothing ==
  [][IsUnknownIdStep
       => UNCHANGED << beacons, statistics, activityLogs, alarmHistory >>]_vars

\* C15: deleteBeacon with a known id removes exactly that one beacon, lowers
\* totalBeacons by one, and leaves the activity log, the alarm history, the
\* connection status and the settings as they were.
C15_DeleteRemovesExactlyOne ==
  [][(Stepped /\ lastOp'.op = "deleteBeacon" /\ lastOp'.id \in Ids(beacons))
       => /\ \E i \in 1..Len(beacons) :
               beacons[i].id = lastOp'.id /\ RemovedAt(i)
          /\ statistics'.totalBeacons = statistics.totalBeacons - 1
          /\ UNCHANGED << activityLogs, alarmHistory, connectionStatus,
                          settings >>]_vars

\* The number of beacons of the list that are not live at time t.
NotLiveCount(beaconList, t) ==
  Cardinality({ i \in 1..Len(beaconList) :
                  ~isBeaconActive(beaconList[i].lastSeen, t) })

\* What addBeacon does to the store, apart from the offline count.
AddBeaconEffect ==
  LET nb == beacons'[Len(beacons')]
      e  == activityLogs'[1]
  IN  /\ beacons' = Append(beacons, nb)
      /\ nb.id = lastOp'.id
      /\ nb.isActive = isBeaconActive(nb.lastSeen, now)
      /\ activityLogs' = << e >> \o activityLogs
      /\ e.eventType = "REGISTRATION"
      /\ e.beaconId = Some(nb.id)
      /\ e.roomNumber = Some(nb.roomNumber)
      /\ e.macAddress = Some(nb.macAddress)
      /\ statistics'.totalBeacons = statistics.totalBeacons + 1

IsValidAddStep ==
  /\ Stepped
  /\ lastOp'.op = "addBeacon"
  /\ beacons'[Len(beacons')].macAddress # ""
  /\ beacons'[Len(beacons')].roomNumber # ""

\* C16: acknowledging an alarm that is already acknowledged leaves the alarm
\* history exactly as it was.
C16_AcknowledgeIdempotent ==
  [][(/\ Stepped
      /\ lastOp'.op = "acknowledgeAlarm"
      /\ \E i \in 1..Len(alarmHistory) :
           alarmHistory[i].id = lastOp'.id /\ alarmHistory[i].acknowledged)
       => alarmHistory' = alarmHistory]_vars

C16_Witness ==
  /\ lastOp = Op("acknowledgeAlarm", 2)
  /\ \E i \in 1..Len(alarmHistory) :
       alarmHistory[i].id = 2 /\ alarmHistory[i].acknowledged

\* C17: an acknowledged alarm stays acknowledged for as long as it is in the
\* alarm history: no step, a tick and a manual refresh included, turns the
\* flag of an alarm back to false.
C17_AcknowledgedIsSticky ==
  [][\A i \in 1..Len(alarmHistory), j \in 1..Len(alarmHistory') :
       (alarmHistory[i].id = alarmHistory'[j].id /\ alarmHistory[i].acknowledged)
         => alarmHistory'[j].acknowledged]_vars

C17_Witness ==
  /\ lastOp.op \in {"intervalTick", "refreshTimeout"}
  /\ \E i \in 1..Len(alarmHistory) :
       alarmHistory[i].id = 1 /\ alarmHistory[i].acknowledged

\* C18: no two beacons of the collection have the same id.
C18_BeaconIdsUnique ==
  \A i, j \in 1..Len(beacons) : beacons[i].id = beacons[j].id => i = j

\* C19 (as stated): addBeacon with valid fields appends the beacon with its
\* liveness flag derived from lastSeen, prepends a REGISTRATION entry for it,
\* raises totalBeacons by one, and raises offlineBeacons by exactly one when
\* the new beacon is not live.
C19_AddRaisesOfflineByOne ==
  [][IsValidAddStep
       => /\ AddBeaconEffect
          /\ ~beacons'[Len(beacons')].isActive
               => statistics'.offlineBeacons = statistics.offlineBeacons + 1]_vars

\* C19 (amended): the same, except that offlineBeacons afterwards is the number
\* of beacons not live at that time, the new beacon among them when it is not
\* live; the rise over the previous value can be more than one.
C19_AddCountsOffline ==
  [][IsValidAddStep
       => /\ AddBeaconEffect
          /\ statistics'.offlineBeacons = NotLiveCount(beacons', now)
          /\ ~beacons'[Len(beacons')].isActive
               => statistics'.offlineBeacons >= 1]_vars

C19_Witness ==
  /\ lastOp.op = "addBeacon"
  /\ Len(beacons) > 5
  /\ LET nb == beacons[Len(beacons)]
     IN  /\ nb.lastSeen = None
         /\ ~nb.isActive
         /\ activityLogs[1].eventType = "REGISTRATION"
         /\ activityLogs[1].beaconId = Some(nb.id)

\* C20: clearAlarmHistory empties the alarm history and clearActivityLogs
\* empties the activity log; each leaves the beacons, the statistics, the
\* settings, the connection status and the other collection as they were.
C20_ClearTouchesOneCollection ==
  [][/\ (Stepped /\ lastOp'.op = "clearAlarmHistory")
          => /\ alarmHistory' = << >>
             /\ UNCHANGED << beacons, statistics, settings, connectionStatus,
                             activityLogs >>
     /\ (Stepped /\ lastOp'.op = "clearActivityLogs")
          => /\ activityLogs' = << >>
             /\ UNCHANGED << beacons, statistics, settings, connectionStatus,
                             alarmHistory >>]_vars

C20_Witness ==
  /\ lastOp.op = "clearActivityLogs"
  /\ activityLogs = << >>
  /\ alarmHistory # << >>


\* ------------------------------------------------------------------------
\* The number of beacons of the list whose stored isActive flag is true.
FlaggedActiveCount(beaconList) ==
  Cardinality({ i \in 1..Len(beaconList) : beaconList[i].isActive })

IsBeaconSetOp(name) ==
  name \in {"addBeacon", "updateBeacon", "deleteBeacon", "intervalTick",
            "refreshTimeout"}

\* The patch names lastSeen, batteryLevel or rssi, with a value.
TouchesTelemetry(updates) ==
  \E f \in {"lastSeen", "batteryLevel", "rssi"} : Get(updates, f) # None

\* C21: after every add, update, delete, tick and manual refresh,
\* statistics.activeBeacons is the number of beacons whose stored isActive
\* flag is true.
C21_ActiveCountsFlags ==
  IsBeaconSetOp(lastOp.op) => statistics.activeBeacons = FlaggedActiveCount(beacons)

\* C22: updateBeacon on an existing id prepends one BEACON_UPDATE entry exactly
\* when the patch names lastSeen, batteryLevel or rssi, whatever the value
\* (0 included); a patch with none of them leaves the log as it was.
C22_LogsIffTelemetry ==
  [][\A up \in UpdateSamples :
       (updateBeacon(up[1], up[2]) /\ up[1] \in Ids(beacons))
         => IF TouchesTelemetry(up[2])
            THEN /\ Len(activityLogs') = Len(activityLogs) + 1
                 /\ activityLogs'[1].eventType = "BEACON_UPDATE"
            ELSE activityLogs' = activityLogs]_vars

\* C23: updating lastSeen to now of any beacon of the store, one added or
\* changed by the command just before included, makes it active and prepends
\* one BEACON_UPDATE entry with its id, its current room number and its MAC.
C23_UpdateLastSeenLogsCurrent ==
  [][\A i \in 1..Len(beacons) :
       updateBeacon(beacons[i].id, [lastSeen |-> Some(now)])
         => /\ \A j \in 1..Len(beacons') :
                 beacons'[j].id = beacons[i].id => beacons'[j].isActive
            /\ Len(activityLogs') = Len(activityLogs) + 1
            /\ SubSeq(activityLogs', 2, Len(activityLogs')) = activityLogs
            /\ activityLogs'[1].eventType = "BEACON_UPDATE"
            /\ activityLogs'[1].beaconId = Some(beacons[i].id)
            /\ activityLogs'[1].roomNumber = Some(beacons[i].roomNumber)
            /\ activityLogs'[1].macAddress = Some(beacons[i].macAddress)]_vars

\* ------------------------------------------------------------------------
\* Patches that name the identity fields: Partial<Beacon> admits them and
\* updateBeacon spreads whatever the patch holds over the beacon.
KeyPatchSamples ==
  { << 3, [id |-> 1] >>,
    << 5, [createdAt |-> now, roomNumber |-> "206"] >> }

NextWithKeyPatch ==
  \/ Next
  \/ \E up \in KeyPatchSamples : updateBeacon(up[1], up[2])

SpecWithKeyPatch == Init /\ [][NextWithKeyPatch]_vars

\* C24: updateBeacon never changes the id or the createdAt of a beacon,
\* whatever the patch, and every field the patch does not name, isActive
\* apart, keeps its value.
C24_UpdateKeepsIdentity ==
  [][\A up \in UpdateSamples \cup KeyPatchSamples :
       updateBeacon(up[1], up[2])
         => /\ Len(beacons') = Len(beacons)
            /\ \A i \in 1..Len(beacons) :
                 /\ beacons'[i].id = beacons[i].id
                 /\ beacons'[i].createdAt = beacons[i].createdAt
                 /\ \A f \in DOMAIN beacons[i] \ (DOMAIN up[2] \cup {"isActive"}) :
                      beacons'[i][f] = beacons[i][f]]_vars

\* The periodic timer matches the settings the last render has committed.
RunningMatchesSettings ==
  Rendered => /\ (timers # {}) <=> settings.autoRefresh
              /\ Cardinality(timers) <= 1
              /\ \A t \in timers : t.period = settings.refreshInterval

\* C25: once a settings change has taken effect (the render that follows it is
\* done), a periodic timer exists exactly when autoRefresh is true, its period
\* is the current refreshInterval, and no tick is applied while autoRefresh is
\* false.
C25_RunningIffAutoRefresh ==
  [][/\ RunningMatchesSettings
     /\ RunningMatchesSettings'
     /\ (Rendered /\ Stepped /\ lastOp'.op = "intervalTick")
          => settings.autoRefresh]_vars

C25_Witness ==
  /\ Rendered
  /\ settings.autoRefresh
  /\ settings.refreshInterval = 10
  /\ timers = {[id |-> timersCreated, period |-> 10]}
  /\ timersCreated > 1

\* the loop went idle: autoRefresh was turned off and the change is rendered
C25_IdleReached ==
  Rendered /\ ~settings.autoRefresh /\ timers = {} /\ steps > 0

\* ------------------------------------------------------------------------
\* The two liveness rules of the code applied to the same dates: one beacon,
\* its lastSeen drawn from the dates around the window's edge (or absent), at
\* a clock reading drawn from ProbeTimes. The utility is applied to the
\* beacon in `beacons`, the rule of updateMockData to its copy in
\* `mockBeacons`; updateMockData assigns lastSeen before it applies its rule,
\* so that rule is only ever applied to a lastSeen that is present.

\* clock readings Now0 .. Now0 + ProbeClockSpan
ProbeClockSpan == 9
\* lastSeen up to this many minutes before the clock reading
ProbeMaxAge == 7

ProbeTimes == Now0 .. (Now0 + ProbeClockSpan)

ProbeDates(t) == {None} \cup { Some(t - age) : age \in 0..ProbeMaxAge }

ProbeBeacon(lastSeen, t) ==
  Beacon(1, "D3:8D:48:10:63:3C", "6h", lastSeen, Some(-45), Some(85), t - 300, FALSE)

InitActiveRule ==
  /\ now \in ProbeTimes
  /\ \E lastSeen \in ProbeDates(now) :
       /\ beacons = << ProbeBeacon(lastSeen, now) >>
       /\ mockBeacons = << ProbeBeacon(lastSeen, now) >>
  /\ mockActivityLogs = << >>
  /\ activityLogs = << >>
  /\ alarmHistory = << >>
  /\ connectionStatus = mockConnectionStatusAt(now)
  /\ statistics = calculateStatistics(beacons, now)
  /\ settings = [mockSettingsInit EXCEPT !.autoRefresh = FALSE]
  /\ isLoading = FALSE
  /\ timeouts = 0
  /\ timers = {}
  /\ effectTimer = {}
  /\ effectDeps = << FALSE, mockSettingsInit.refreshInterval >>
  /\ timersCreated = 0
  /\ closureBeacons = beacons
  /\ closureConnected = TRUE
  /\ lastOp = Op("Render", 0)
  /\ steps = 0

applyIsBeaconActive ==
  /\ lastOp.op = "Render"
  /\ beacons' = << [beacons[1] EXCEPT
                      !.isActive = isBeaconActive(beacons[1].lastSeen, now)] >>
  /\ Applied(Op("isBeaconActive", 0))
  /\ UNCHANGED << now, mockBeacons, mockActivityLogs, activityLogs, alarmHistory,
                  connectionStatus, statistics, settings, isLoading, timeouts,
                  timers, effectTimer, effectDeps, timersCreated, closureBeacons,
                  closureConnected >>

applyUpdateMockIsActive ==
  /\ lastOp.op = "isBeaconActive"
  /\ \E lastSeen \in mockBeacons[1].lastSeen :
       mockBeacons' = << [mockBeacons[1] EXCEPT
                            !.isActive = updateMockIsActive(lastSeen, now)] >>
  /\ Applied(Op("updateMockIsActive", 0))
  /\ UNCHANGED << now, beacons, mockActivityLogs, activityLogs, alarmHistory,
                  connectionStatus, statistics, settings, isLoading, timeouts,
                  timers, effectTimer, effectDeps, timersCreated, closureBeacons,
                  closureConnected >>

NextActiveRule ==
  \/ applyIsBeaconActive
  \/ applyUpdateMockIsActive

SpecActiveRule == InitActiveRule /\ [][NextActiveRule]_vars

\* lastSeen is present and strictly less than ActiveWindow old
WithinWindow(lastSeen, t) ==
  /\ lastSeen # None
  /\ \A ls \in lastSeen : t - ls < ActiveWindow

LabelAgrees ==
  connectionStatus.status =
    IF connectionStatus.isConnected THEN "Connected" ELSE "Disconnected"

NextFair ==
  \/ refreshData
  \/ \E d \in DrawSamples : completeRefresh(d)
  \/ \E t \in timers, s \in TickSamples : intervalTick(t, s[1], s[2])
  \/ \E nb \in NewBeaconSamples : addBeacon(nb)
  \/ \E ns \in SettingsSamples : updateSettings(ns)
  \/ Render
  \/ AdvanceTime

SpecFair ==
  /\ Init
  /\ [][NextFair]_vars
  /\ WF_vars(\E d \in DrawSamples : completeRefresh(d))

\* C28: every refreshData call sets the busy flag, and a set busy flag is
\* eventually false again, cleared by the completion that has applied the
\* ingested data and the recomputed statistics.
C28_RefreshCompletes ==
  /\ [](lastOp.op = "refreshData" => isLoading)
  /\ isLoading ~> (~isLoading /\ lastOp.op = "refreshTimeout")

C28_Witness ==
  /\ lastOp.op = "refreshTimeout"
  /\ ~isLoading
  /\ timeouts = 0
  /\ beacons = mockBeacons
  /\ statistics = calculateStatistics(beacons, now)

\* C29: the busy flag is true in every state in which a manual refresh has
\* been started and its completion has not yet run.
C29_BusyWhilePending == timeouts > 0 => isLoading

\* ------------------------------------------------------------------------
\* The step set the acknowledged flag of exactly one alarm and nothing else.
OneFlagSet ==
  \E i \in 1..Len(alarmHistory) :
    /\ ~alarmHistory[i].acknowledged
    /\ alarmHistory' = [alarmHistory EXCEPT ![i].acknowledged = TRUE]

====
